---- MODULE Spec2Model ----
(***************************************************************************)
(* Control-flow graph container (src/src/cfg.ts) and Havlak loop finder    *)
(* (src/src/havlak.ts).                                                    *)
(*                                                                         *)
(* Objects live in heaps: `blocks` holds every BasicBlock ever constructed *)
(* (a reference is its 1-based position), `loopHeap` every SimpleLoop.     *)
(* Arrays of the finder that the source indexes from 0 are functions over  *)
(* 0..size-1.  The JavaScript value `undefined` is the value Undefined.    *)
(***************************************************************************)
EXTENDS Integers, Sequences, FiniteSets, TLC

\* ------------------------------------------------------------- bounds
MaxNodes == 3
MaxEdges == 4
MaxCFGBlocks == 2
MaxCFGEdges == 2
MaxId == 2
MaxUFNodes == 3

\* ---------------------------------------------------------- constants
\* JavaScript's `undefined`: an unset field, a missing array element.
Undefined == -2
UNVISITED == -1
MAXNONBACKPREDS == 32768
BB_NONHEADER == 1
BB_REDUCIBLE == 2
BB_SELF == 3
BB_IRREDUCIBLE == 4
BB_DEAD == 5

\* Property keys of a JavaScript array: the canonical decimal strings name
\* its elements, any other string names an ordinary property.
IndexLabels == <<"0", "1", "2", "3", "4", "5", "6", "7">>
IndexLabel(k) == IndexLabels[k + 1]
PlainLabel == "bb.entry"
Labels == {IndexLabels[i] : i \in 1..Len(IndexLabels)} \cup {PlainLabel}
IsElementKey(name, size) == \E k \in 0..(size - 1) : k < Len(IndexLabels) /\ IndexLabel(k) = name

VARIABLES
    \* CFG and the BasicBlock heap
    blocks, basicBlockMap, edgeList, startNode,
    \* whether the last construction call ended by throwing
    threw,
    \* history: block returned by the first createNode call, edges constructed
    firstRet, constructed,
    \* LSG and the SimpleLoop heap
    loopHeap, loopCounter, loops, root,
    \* HavlakLoopFinder.findLoops: position and locals
    pc, size, nonBackPreds, backPreds, numbers, header, types, last, nodes,
    w, nodePool, np, loop, result,
    \* history: DFS-tree parent of each DFS number
    dfsParent,
    \* history of the union-find exercise: last find() result, misuse of union
    ufRet, cyclicUnion

cfgVars == <<blocks, basicBlockMap, edgeList, startNode>>
histVars == <<firstRet, constructed>>
lsgVars == <<loopHeap, loopCounter, loops, root>>
finderVars == <<pc, size, nonBackPreds, backPreds, numbers, header, types, last,
                nodes, w, nodePool, np, loop, result, dfsParent>>
ufVars == <<ufRet, cyclicUnion>>
vars == <<cfgVars, threw, histVars, lsgVars, finderVars, ufVars>>

\* ------------------------------------------------------------ helpers
Count(s, x) == Cardinality({i \in 1..Len(s) : s[i] = x})
Range(s) == {s[i] : i \in 1..Len(s)}

\* Entries of the outgoing sequences of the first n blocks of the heap.
RECURSIVE OutEdgeCount(_, _)
OutEdgeCount(bs, n) ==
    IF n = 0 THEN 0 ELSE Len(bs[n].outEdges) + OutEdgeCount(bs, n - 1)

\* ================================================================ cfg.ts
NewBasicBlock(name, id) == [name |-> name, id |-> id, inEdges |-> <<>>, outEdges |-> <<>>]

getNumNodes(map) == Len(map)

\* Map.get: the block registered under id, or undefined.
MapGet(map, id) ==
    IF \E i \in 1..Len(map) : map[i].id = id
    THEN (CHOOSE e \in Range(map) : e.id = id).bb
    ELSE Undefined

Registered(map) == {map[i].bb : i \in 1..Len(map)}

addOutEdge(bs, from, to) == [bs EXCEPT ![from].outEdges = Append(@, to)]
\* A mutant that records the in-edge on the wrong block.
addInEdgeSwapped(bs, to, from) == [bs EXCEPT ![from].inEdges = Append(@, to)]
addInEdge(bs, to, from) == [bs EXCEPT ![to].inEdges = Append(@, from)]
addEdge(list, edge) == Append(list, edge)

\* A mutant that moves the start node whenever the graph is non-empty.
CreateNodeMovesStart(name, id) ==
    LET found == MapGet(basicBlockMap, id)
        node == IF found = Undefined THEN Len(blocks) + 1 ELSE found
        map2 == IF found = Undefined
                THEN Append(basicBlockMap, [id |-> id, bb |-> node])
                ELSE basicBlockMap
    IN  /\ pc = "idle"
        /\ blocks' = IF found = Undefined
                     THEN Append(blocks, NewBasicBlock(name, id))
                     ELSE blocks
        /\ basicBlockMap' = map2
        /\ startNode' = IF getNumNodes(map2) >= 1 THEN node ELSE startNode
        /\ firstRet' = IF firstRet = Undefined THEN node ELSE firstRet
        /\ threw' = FALSE
        /\ UNCHANGED <<edgeList, constructed, lsgVars, finderVars, ufVars>>

\* CFG.createNode(name, id)
CreateNode(name, id) ==
    LET found == MapGet(basicBlockMap, id)
        node == IF found = Undefined THEN Len(blocks) + 1 ELSE found
        map2 == IF found = Undefined
                THEN Append(basicBlockMap, [id |-> id, bb |-> node])
                ELSE basicBlockMap
    IN  /\ pc = "idle"
        /\ blocks' = IF found = Undefined
                     THEN Append(blocks, NewBasicBlock(name, id))
                     ELSE blocks
        /\ basicBlockMap' = map2
        /\ startNode' = IF getNumNodes(map2) = 1 THEN node ELSE startNode
        /\ firstRet' = IF firstRet = Undefined THEN node ELSE firstRet
        /\ threw' = FALSE
        /\ UNCHANGED <<edgeList, constructed, lsgVars, finderVars, ufVars>>

\* new BasicBlock(name, id) called directly: a block no graph has registered.
ConstructBlock(name, id) ==
    /\ pc = "idle"
    /\ blocks' = Append(blocks, NewBasicBlock(name, id))
    /\ threw' = FALSE
    /\ UNCHANGED <<basicBlockMap, edgeList, startNode, histVars, lsgVars, finderVars, ufVars>>

\* new BasicBlockEdge(cfg, from, to); from or to may be undefined.
\* A call on undefined throws a TypeError where the source makes it, keeping
\* the assignments made before it.
NewEdge(from, to) ==
    /\ pc = "idle"
    /\ IF from = Undefined
       THEN /\ threw' = TRUE
            /\ UNCHANGED <<blocks, edgeList, constructed>>
       ELSE IF to = Undefined
       THEN /\ blocks' = addOutEdge(blocks, from, to)
            /\ threw' = TRUE
            /\ UNCHANGED <<edgeList, constructed>>
       ELSE /\ blocks' = addInEdge(addOutEdge(blocks, from, to), to, from)
            /\ edgeList' = addEdge(edgeList, [from |-> from, to |-> to])
            /\ constructed' = Append(constructed, [from |-> from, to |-> to])
            /\ threw' = FALSE
    /\ UNCHANGED <<basicBlockMap, startNode, firstRet, lsgVars, finderVars, ufVars>>

\* ============================================================ havlak.ts
\* ------------------------------------------------------------ SimpleLoop
NewSimpleLoop(counter) ==
    [basicBlocks |-> <<>>, children |-> <<>>, counter |-> counter,
     parent |-> Undefined, header |-> Undefined, isRoot |-> FALSE,
     isReducible |-> TRUE, nestingLevel |-> 0, depthLevel |-> 0]

addNode(heap, l, bb) == [heap EXCEPT ![l].basicBlocks = Append(@, bb)]
addChildLoop(heap, l, child) == [heap EXCEPT ![l].children = Append(@, child)]
setParent(heap, l, p) == addChildLoop([heap EXCEPT ![l].parent = p], p, l)
setHeader(heap, l, bb) ==
    [heap EXCEPT ![l].basicBlocks = Append(@, bb), ![l].header = bb]
setNestingLevel(l, level) ==
    [l EXCEPT !.nestingLevel = level, !.isRoot = IF level = 0 THEN TRUE ELSE @]

\* ------------------------------------------------------------------ LSG
\* A mutant that records a loop at the front of the sequence.
addLoopAtFront(ls, l) == <<l>> \o ls
addLoop(ls, l) == Append(ls, l)
getNumLoops(ls) == Len(ls)

\* --------------------------------------------------------- UnionFindNode
NewUnionFindNode ==
    [dfsNumber |-> 0, parent |-> Undefined, bb |-> Undefined, loop |-> Undefined]

\* initNode on the node whose identity is self.
initNode(n, self, bb, dfsNumber) ==
    [n EXCEPT !.parent = self, !.bb = bb, !.dfsNumber = dfsNumber]

\* The while loop of findSet from `node`.  The parent links do not change
\* during the walk, so a walk of more steps than there are nodes has met a
\* node twice and never ends: "diverges".  Reading .parent of undefined
\* throws: "TypeError".
RECURSIVE FindWalk(_, _, _, _)
FindWalk(N, node, nodeList, fuel) ==
    IF N[node].parent = Undefined
    THEN [outcome |-> "TypeError", node |-> node, nodeList |-> nodeList]
    ELSE IF node = N[node].parent
    THEN [outcome |-> "ok", node |-> node, nodeList |-> nodeList]
    ELSE IF fuel = 0
    THEN [outcome |-> "diverges", node |-> node, nodeList |-> nodeList]
    ELSE LET p == N[node].parent
         IN  FindWalk(N, p,
                      IF p # N[p].parent THEN Append(nodeList, node) ELSE nodeList,
                      fuel - 1)

\* findSet with the path compression applied; a mutant that follows one link.
FindSetOneLink(N, n) ==
    [outcome |-> IF N[n].parent = Undefined THEN "TypeError" ELSE "ok",
     node |-> N[n].parent, nodes |-> N]

FindSet(N, n) ==
    LET walk == FindWalk(N, n, <<>>, Cardinality(DOMAIN N))
    IN  [outcome |-> walk.outcome,
         node |-> walk.node,
         nodes |-> IF walk.outcome # "ok" THEN N
                   ELSE [k \in DOMAIN N |->
                            IF k \in Range(walk.nodeList)
                            THEN [N[k] EXCEPT !.parent = N[walk.node].parent]
                            ELSE N[k]]]

union(N, n, unionFindNode) == [N EXCEPT ![n].parent = unionFindNode]

\* Nodes on the parent chain from n, n included.
RECURSIVE ChainFrom(_, _, _)
ChainFrom(N, S, k) ==
    IF k = 0 THEN S
    ELSE ChainFrom(N, S \cup {N[x].parent : x \in S}, k - 1)
Chain(N, n) == ChainFrom(N, {n}, Cardinality(DOMAIN N))

\* ------------------------------------------------------ HavlakLoopFinder
\* A mutant without the upper end of the interval.
IsAncestorNoLast(ww, v, lst) ==
    IF v = Undefined THEN FALSE ELSE ww <= v

\* (w <= v) && (v <= last[w]); a comparison with undefined is false.
IsAncestor(ww, v, lst) ==
    IF v = Undefined THEN FALSE ELSE (ww <= v) /\ (v <= lst[ww])

\* DFS(currentNode, nodes, numbers, last, current) over the record
\* st = [nodes, numbers, last, lastid, threw, dfsParent]; its return value is
\* st.lastid.  `caller` is the DFS number of the calling frame (history).
\* nodes[current] beyond the array is undefined and initNode on it throws.
RECURSIVE DFS(_, _, _, _)
RECURSIVE DFSTargets(_, _, _, _)
DFS(st, currentNode, current, caller) ==
    IF current \notin DOMAIN st.nodes
    THEN [st EXCEPT !.threw = TRUE]
    ELSE LET name == blocks[currentNode].name
             st1 == [st EXCEPT !.nodes[current] = initNode(@, current, currentNode, current),
                               !.numbers[name] = current,
                               !.dfsParent[current] = caller,
                               !.lastid = current]
             st2 == DFSTargets(st1, currentNode, 1, current)
         IN  IF st2.threw THEN st2
             ELSE [st2 EXCEPT !.last[st2.numbers[name]] = st2.lastid]

\* The for loop of DFS over currentNode.outEdges from position target.
DFSTargets(st, currentNode, target, current) ==
    IF st.threw \/ target > Len(blocks[currentNode].outEdges)
    THEN st
    ELSE LET next == blocks[currentNode].outEdges[target]
         IN  IF st.numbers[blocks[next].name] = UNVISITED
             THEN DFSTargets(DFS(st, next, st.lastid + 1, current),
                             currentNode, target + 1, current)
             ELSE DFSTargets(st, currentNode, target + 1, current)

\* Step b for one w: the DFS numbers of w's predecessors, in inEdges order.
PredNumbers(nums, nodeW) ==
    [i \in 1..Len(blocks[nodeW].inEdges) |-> nums[blocks[blocks[nodeW].inEdges[i]].name]]

StepB_backPreds(nds, nums, lst, ww) ==
    IF nds[ww].bb = Undefined THEN <<>>
    ELSE LET vs == PredNumbers(nums, nds[ww].bb)
             IsBack(v) == v # UNVISITED /\ IsAncestor(ww, v, lst)
         IN  SelectSeq(vs, IsBack)

StepB_nonBackPreds(nds, nums, lst, ww) ==
    IF nds[ww].bb = Undefined THEN <<>>
    ELSE LET vs == PredNumbers(nums, nds[ww].bb)
             IsNonBack(v) == v # UNVISITED /\ ~IsAncestor(ww, v, lst)
         IN  SelectSeq(vs, IsNonBack)

\* Step d: the loop over backPreds[w] from position vi, over the record
\* st = [nodes, types, nonBackPreds, nodePool, workList, outcome].
RECURSIVE StepD(_, _, _)
StepD(st, ww, vi) ==
    IF st.outcome # "ok" \/ vi > Len(backPreds[ww])
    THEN st
    ELSE LET v == backPreds[ww][vi]
         IN  IF v # ww
             THEN IF v \notin DOMAIN st.nodes
                  THEN [st EXCEPT !.outcome = "TypeError"]
                  ELSE LET f == FindSet(st.nodes, v)
                       IN  IF f.outcome # "ok"
                           THEN [st EXCEPT !.outcome = f.outcome]
                           ELSE StepD([st EXCEPT !.nodes = f.nodes,
                                                 !.nodePool = Append(@, f.node)],
                                      ww, vi + 1)
             ELSE StepD([st EXCEPT !.types[ww] = BB_SELF], ww, vi + 1)

\* Step e: the loop over nonBackPreds[x.dfsNumber] from position iter.
RECURSIVE StepE(_, _, _, _)
StepE(st, ww, x, iter) ==
    IF st.outcome # "ok" \/ iter > Len(st.nonBackPreds[st.nodes[x].dfsNumber])
    THEN st
    ELSE LET yi == st.nonBackPreds[st.nodes[x].dfsNumber][iter]
         IN  IF yi \notin DOMAIN st.nodes
             THEN [st EXCEPT !.outcome = "TypeError"]
             ELSE LET f == FindSet(st.nodes, yi)
                      ydash == f.node
                  IN  IF f.outcome # "ok"
                      THEN [st EXCEPT !.outcome = f.outcome]
                      ELSE IF ~IsAncestor(ww, f.nodes[ydash].dfsNumber, last)
                      THEN StepE([st EXCEPT !.nodes = f.nodes,
                                            !.types[ww] = BB_IRREDUCIBLE,
                                            !.nonBackPreds[ww] =
                                                Append(@, f.nodes[ydash].dfsNumber)],
                                 ww, x, iter + 1)
                      ELSE IF f.nodes[ydash].dfsNumber # ww /\ ydash \notin Range(st.nodePool)
                      THEN StepE([st EXCEPT !.nodes = f.nodes,
                                            !.workList = Append(@, ydash),
                                            !.nodePool = Append(@, ydash)],
                                 ww, x, iter + 1)
                      ELSE StepE([st EXCEPT !.nodes = f.nodes], ww, x, iter + 1)

\* The while loop over workList (workList.shift() takes the head).
RECURSIVE WorkList(_, _)
WorkList(st, ww) ==
    IF st.outcome # "ok" \/ Len(st.workList) = 0
    THEN st
    ELSE LET x == Head(st.workList)
             st1 == [st EXCEPT !.workList = Tail(@)]
         IN  IF Len(st1.nonBackPreds[st1.nodes[x].dfsNumber]) > MAXNONBACKPREDS
             THEN [st1 EXCEPT !.outcome = "abort"]
             ELSE WorkList(StepE(st1, ww, x, 1), ww)

\* Steps d and e for header w: seed the pool, mark it, work the list.
Region(ww) ==
    LET st0 == [nodes |-> nodes, types |-> types, nonBackPreds |-> nonBackPreds,
                nodePool |-> <<>>, workList |-> <<>>, outcome |-> "ok"]
        st1 == StepD(st0, ww, 1)
        st2 == [st1 EXCEPT !.workList = st1.nodePool,
                           !.types[ww] = IF Len(st1.nodePool) # 0 THEN BB_REDUCIBLE ELSE @]
    IN  IF st1.outcome # "ok" THEN st1 ELSE WorkList(st2, ww)

\* loop.isReducible as findLoops assigns it from types[w].
IsReducibleFor(type) == IF type = BB_IRREDUCIBLE THEN TRUE ELSE FALSE

\* findLoops up to the end of step b (or its return on a graph without start
\* node): the assignments to its locals.
FindLoopsPass ==
    /\ pc = "idle"
    /\ IF startNode = Undefined
       THEN /\ pc' = "done"
            /\ result' = 0
            /\ UNCHANGED <<size, nonBackPreds, backPreds, numbers, header, types,
                           last, nodes, w, dfsParent>>
       ELSE LET sz == getNumNodes(basicBlockMap)
                idx == 0..(sz - 1)
                st0 == [nodes |-> [i \in idx |-> NewUnionFindNode],
                        numbers |-> [l \in Labels |->
                                        IF IsElementKey(l, sz) THEN UNVISITED ELSE Undefined],
                        last |-> [i \in idx |-> 0],
                        lastid |-> 0,
                        threw |-> FALSE,
                        dfsParent |-> [i \in idx |-> Undefined]]
                st == DFS(st0, startNode, 0, Undefined)
            IN  /\ size' = sz
                /\ nodes' = st.nodes
                /\ numbers' = st.numbers
                /\ last' = st.last
                /\ dfsParent' = st.dfsParent
                /\ header' = [i \in idx |-> 0]
                /\ types' = [i \in idx |->
                               IF st.nodes[i].bb = Undefined THEN BB_DEAD ELSE BB_NONHEADER]
                /\ backPreds' = [i \in idx |->
                                   StepB_backPreds(st.nodes, st.numbers, st.last, i)]
                /\ nonBackPreds' = [i \in idx |->
                                      StepB_nonBackPreds(st.nodes, st.numbers, st.last, i)]
                /\ w' = sz - 1
                /\ pc' = IF st.threw THEN "threw" ELSE "stepC"
                /\ UNCHANGED result
    /\ UNCHANGED <<threw, histVars, lsgVars, nodePool, np, loop, ufVars>>

\* A mutant whose step b consumes each block's inEdges while reading them.
FindLoopsEnterDraining ==
    /\ FindLoopsPass
    /\ blocks' = [b \in DOMAIN blocks |-> [blocks[b] EXCEPT !.inEdges = <<>>]]
    /\ UNCHANGED <<basicBlockMap, edgeList, startNode>>

\* findLoops reads cfg and the blocks and assigns to none of them.
FindLoopsEnter ==
    /\ FindLoopsPass
    /\ UNCHANGED cfgVars

\* One iteration of step c up to the creation of the loop descriptor.
StepC ==
    /\ pc = "stepC"
    /\ w >= 0
    /\ IF nodes[w].bb = Undefined
       THEN /\ w' = w - 1
            /\ UNCHANGED <<pc, nodes, types, nonBackPreds, nodePool, np, loop, result,
                           lsgVars>>
       ELSE LET st == Region(w)
            IN  /\ nodePool' = st.nodePool
                /\ types' = st.types
                /\ nonBackPreds' = st.nonBackPreds
                /\ IF st.outcome = "abort"
                   THEN /\ pc' = "done"
                        /\ result' = 0
                        /\ nodes' = st.nodes
                        /\ UNCHANGED <<w, np, loop, lsgVars>>
                   ELSE IF st.outcome # "ok"
                   THEN /\ pc' = IF st.outcome = "TypeError" THEN "threw" ELSE "hung"
                        /\ nodes' = st.nodes
                        /\ UNCHANGED <<w, np, loop, result, lsgVars>>
                   ELSE IF Len(st.nodePool) > 0 \/ st.types[w] = BB_SELF
                   THEN LET l == Len(loopHeap) + 1
                            created == Append(loopHeap, NewSimpleLoop(loopCounter))
                            headed == setHeader(created, l, nodes[w].bb)
                        IN  /\ loopCounter' = loopCounter + 1
                            /\ loopHeap' = [headed EXCEPT ![l].isReducible =
                                               IsReducibleFor(st.types[w])]
                            /\ nodes' = [st.nodes EXCEPT ![w].loop = l]
                            /\ loop' = l
                            /\ np' = 1
                            /\ pc' = "collapse"
                            /\ UNCHANGED <<w, result, loops, root>>
                   ELSE /\ w' = w - 1
                        /\ nodes' = st.nodes
                        /\ UNCHANGED <<pc, np, loop, result, lsgVars>>
    /\ UNCHANGED <<cfgVars, threw, histVars, size, backPreds, numbers, header, last,
                   dfsParent, ufVars>>

\* One iteration of the loop over nodePool.
Collapse ==
    /\ pc = "collapse"
    /\ np <= Len(nodePool)
    /\ LET node == nodePool[np]
       IN  /\ header' = [header EXCEPT ![nodes[node].dfsNumber] = w]
           /\ nodes' = union(nodes, node, w)
           /\ loopHeap' = IF nodes[node].loop # Undefined
                          THEN setParent(loopHeap, nodes[node].loop, loop)
                          ELSE addNode(loopHeap, loop, nodes[node].bb)
    /\ np' = np + 1
    /\ UNCHANGED <<cfgVars, threw, histVars, loopCounter, loops, root, pc, size,
                   nonBackPreds, backPreds, numbers, types, last, w, nodePool, loop,
                   result, dfsParent, ufVars>>

\* this.lsg.addLoop(loop) and the step to the next w.
CollapseEnd ==
    /\ pc = "collapse"
    /\ np > Len(nodePool)
    /\ loops' = addLoop(loops, loop)
    /\ w' = w - 1
    /\ pc' = "stepC"
    /\ UNCHANGED <<cfgVars, threw, histVars, loopHeap, loopCounter, root, size,
                   nonBackPreds, backPreds, numbers, header, types, last, nodes,
                   nodePool, np, loop, result, dfsParent, ufVars>>

\* return this.lsg.getNumLoops()
FindLoopsReturn ==
    /\ pc = "stepC"
    /\ w < 0
    /\ result' = getNumLoops(loops)
    /\ pc' = "done"
    /\ UNCHANGED <<cfgVars, threw, histVars, lsgVars, size, nonBackPreds, backPreds,
                   numbers, header, types, last, nodes, w, nodePool, np, loop,
                   dfsParent, ufVars>>

\* new LSG() and new HavlakLoopFinder(cfg, lsg) after a run: a fresh forest
\* and finder on the same graph.
NewAnalysis ==
    /\ pc \in {"done", "threw"}
    /\ loopHeap' = <<setNestingLevel(NewSimpleLoop(0), 0)>>
    /\ loopCounter' = 1
    /\ loops' = <<1>>
    /\ root' = 1
    /\ pc' = "idle"
    /\ size' = 0
    /\ nonBackPreds' = <<>>
    /\ backPreds' = <<>>
    /\ numbers' = <<>>
    /\ header' = <<>>
    /\ types' = <<>>
    /\ last' = <<>>
    /\ nodes' = <<>>
    /\ w' = Undefined
    /\ nodePool' = <<>>
    /\ np' = 0
    /\ loop' = Undefined
    /\ result' = Undefined
    /\ dfsParent' = <<>>
    /\ UNCHANGED <<cfgVars, threw, histVars, ufVars>>

\* ---------------------------------------------- union-find exercised alone
Union(a, b) ==
    /\ pc = "uf"
    /\ nodes' = union(nodes, a, b)
    /\ cyclicUnion' = IF b # a /\ a \in Chain(nodes, b) THEN TRUE ELSE cyclicUnion
    /\ UNCHANGED <<cfgVars, threw, histVars, lsgVars, ufRet>>
    /\ UNCHANGED <<pc, size, nonBackPreds, backPreds, numbers, header, types, last,
                   w, nodePool, np, loop, result, dfsParent>>

Find(a) ==
    LET f == FindSet(nodes, a)
    IN  /\ pc = "uf"
        /\ nodes' = f.nodes
        /\ pc' = IF f.outcome = "ok" THEN "uf" ELSE "hung"
        /\ ufRet' = IF f.outcome = "ok" THEN f.node ELSE ufRet
        /\ UNCHANGED <<cfgVars, threw, histVars, lsgVars, cyclicUnion>>
        /\ UNCHANGED <<size, nonBackPreds, backPreds, numbers, header, types, last,
                       w, nodePool, np, loop, result, dfsParent>>

\* ------------------------------------------------------ initial states
Init ==
    /\ blocks = <<>>
    /\ basicBlockMap = <<>>
    /\ edgeList = <<>>
    /\ startNode = Undefined
    /\ threw = FALSE
    /\ firstRet = Undefined
    /\ constructed = <<>>
    /\ loopHeap = <<setNestingLevel(NewSimpleLoop(0), 0)>>
    /\ loopCounter = 1
    /\ loops = <<1>>
    /\ root = 1
    /\ pc = "idle"
    /\ size = 0
    /\ nonBackPreds = <<>>
    /\ backPreds = <<>>
    /\ numbers = <<>>
    /\ header = <<>>
    /\ types = <<>>
    /\ last = <<>>
    /\ nodes = <<>>
    /\ w = Undefined
    /\ nodePool = <<>>
    /\ np = 0
    /\ loop = Undefined
    /\ result = Undefined
    /\ dfsParent = <<>>
    /\ ufRet = Undefined
    /\ cyclicUnion = FALSE

InitUF ==
    /\ blocks = <<>>
    /\ basicBlockMap = <<>>
    /\ edgeList = <<>>
    /\ startNode = Undefined
    /\ threw = FALSE
    /\ firstRet = Undefined
    /\ constructed = <<>>
    /\ loopHeap = <<setNestingLevel(NewSimpleLoop(0), 0)>>
    /\ loopCounter = 1
    /\ loops = <<1>>
    /\ root = 1
    /\ pc = "uf"
    /\ size = MaxUFNodes
    /\ nonBackPreds = <<>>
    /\ backPreds = <<>>
    /\ numbers = <<>>
    /\ header = <<>>
    /\ types = <<>>
    /\ last = <<>>
    /\ nodes = [i \in 0..(MaxUFNodes - 1) |-> initNode(NewUnionFindNode, i, Undefined, i)]
    /\ w = Undefined
    /\ nodePool = <<>>
    /\ np = 0
    /\ loop = Undefined
    /\ result = Undefined
    /\ dfsParent = <<>>
    /\ ufRet = Undefined
    /\ cyclicUnion = FALSE

\* ------------------------------------------------------ specifications
\* Graph construction alone: any ids, unregistered and undefined endpoints.
NextCFG ==
    \/ \E id \in 0..MaxId :
          /\ Len(blocks) < MaxCFGBlocks
          /\ CreateNode(IndexLabel(Len(blocks)), id)
    \/ \E id \in 0..MaxId :
          /\ MapGet(basicBlockMap, id) # Undefined
          /\ CreateNode(PlainLabel, id)
    \/ /\ Len(blocks) < MaxCFGBlocks
       /\ ConstructBlock(PlainLabel, MaxId)
    \/ \E from \in (1..Len(blocks)) \cup {Undefined}, to \in (1..Len(blocks)) \cup {Undefined} :
          /\ OutEdgeCount(blocks, Len(blocks)) < MaxCFGEdges
          /\ NewEdge(from, to)

SpecCFG == Init /\ [][NextCFG]_vars

\* A graph is built (blocks first, then edges between registered blocks) and
\* analysed.  A block's label is the decimal string of its registration
\* position or a label that is no array index.
Next ==
    \/ \E name \in {IndexLabel(Len(blocks)), PlainLabel}, id \in 0..Len(blocks) :
          /\ Len(blocks) < MaxNodes
          /\ Len(edgeList) = 0
          /\ CreateNode(name, id)
    \/ \E from \in Registered(basicBlockMap), to \in Registered(basicBlockMap) :
          /\ Len(edgeList) < MaxEdges
          /\ NewEdge(from, to)
    \/ FindLoopsEnter
    \/ StepC
    \/ Collapse
    \/ CollapseEnd
    \/ FindLoopsReturn
    \/ NewAnalysis

Spec == Init /\ [][Next]_vars

\* The union-find node alone: unions and finds on initialised nodes.
NextUF ==
    \/ \E a \in DOMAIN nodes, b \in DOMAIN nodes : Union(a, b)
    \/ \E a \in DOMAIN nodes : Find(a)

SpecUF == InitUF /\ [][NextUF]_vars

\* ================================================================ claims
\* Loops reached from l by following parent links, l excluded.
RECURSIVE LoopAncestorsFrom(_, _)
LoopAncestorsFrom(S, k) ==
    IF k = 0 THEN S
    ELSE LoopAncestorsFrom(
             S \cup {loopHeap[x].parent : x \in {y \in S : loopHeap[y].parent # Undefined}},
             k - 1)
LoopAncestors(l) ==
    IF loopHeap[l].parent = Undefined THEN {}
    ELSE LoopAncestorsFrom({loopHeap[l].parent}, Len(loopHeap))

NonRootLoops == {l \in Range(loops) : l # root}

\* C1: after findLoops completes, every loop of the forest other than the
\* root has a parent, following parent links from it reaches the root, no
\* loop is its own ancestor, and the root has no parent.
C1_ForestWellFormed ==
    pc = "done" =>
        /\ loopHeap[root].parent = Undefined
        /\ \A l \in NonRootLoops :
              /\ loopHeap[l].parent # Undefined
              /\ root \in LoopAncestors(l)
              /\ l \notin LoopAncestors(l)

\* C2: every loop record created by findLoops has isReducible = FALSE exactly
\* when its header was classified irreducible (types[w] = BB_IRREDUCIBLE), and
\* isReducible = TRUE otherwise.
C2_ReducibleFlagMatchesClassification ==
    \A k \in DOMAIN nodes :
        (pc \in {"stepC", "collapse", "done"} /\ nodes[k].loop # Undefined) =>
            (loopHeap[nodes[k].loop].isReducible <=> (types[k] # BB_IRREDUCIBLE))

\* C3: on a graph with at least one block whose edges connect registered
\* blocks, findLoops never ends in an error or an endless loop, and what it
\* returns is at least 1.
C3_FindLoopsTotal ==
    /\ pc \notin {"threw", "hung"}
    /\ (pc = "done" /\ startNode # Undefined) => result >= 1

\* DFS numbers of the blocks the numbering visited.
Visited == {k \in DOMAIN nodes : nodes[k].bb # Undefined}
\* Visited blocks that are the target of a backedge: some predecessor block
\* was visited and is the block itself or a descendant of it.
BackedgeTargets ==
    {k \in Visited :
        \E i \in 1..Len(blocks[nodes[k].bb].inEdges) :
            \E j \in Visited :
                /\ nodes[j].bb = blocks[nodes[k].bb].inEdges[i]
                /\ IsAncestor(k, j, last)}

\* C4: when findLoops returns normally, the forest holds exactly one non-root
\* loop for each visited block that is the target of a backedge, headed by
\* that block, no other loop, and the count returned is 1 plus their number.
C4_OneLoopPerBackedgeTarget ==
    (pc = "done" /\ startNode # Undefined /\ result # 0) =>
        /\ \A k \in BackedgeTargets :
              Cardinality({i \in 1..Len(loops) :
                              loops[i] # root /\ loopHeap[loops[i]].header = nodes[k].bb}) = 1
        /\ \A l \in NonRootLoops :
              \E k \in BackedgeTargets : loopHeap[l].header = nodes[k].bb
        /\ result = 1 + Cardinality(BackedgeTargets)

C6_StartNodeIsFirstRegistered ==
    /\ (startNode # Undefined) <=> (getNumNodes(basicBlockMap) >= 1)
    /\ startNode = firstRet

C6_Witness ==
    /\ startNode # Undefined
    /\ \E e \in Range(basicBlockMap) : e.bb # startNode /\ e.id < blocks[startNode].id

EdgeCount(a, b) ==
    Cardinality({i \in 1..Len(edgeList) : edgeList[i].from = a /\ edgeList[i].to = b})

\* C7: the edge list holds the constructed edges in construction order, and
\* for all blocks a, b the occurrences of b in a's outgoing sequence, of a in
\* b's incoming sequence and of (a, b) in the edge list are equally many.
C7_EdgesMirrored ==
    /\ edgeList = constructed
    /\ \A a \in 1..Len(blocks), b \in 1..Len(blocks) :
          /\ Count(blocks[a].outEdges, b) = EdgeCount(a, b)
          /\ Count(blocks[b].inEdges, a) = EdgeCount(a, b)

C7_Witness ==
    \E a \in 1..Len(blocks), b \in 1..Len(blocks) :
        a # b /\ EdgeCount(a, b) = 2 /\ Len(blocks[b].inEdges) = 2

\* C8: constructing an edge with an endpoint that the graph never registered
\* throws and leaves the edge list and every registered block's sequences
\* unchanged.
C8_UnregisteredEndpointRejected ==
    [][\A from \in (1..Len(blocks)) \cup {Undefined}, to \in (1..Len(blocks)) \cup {Undefined} :
          (NewEdge(from, to) /\ ~({from, to} \subseteq Registered(basicBlockMap))) =>
              /\ threw'
              /\ edgeList' = edgeList
              /\ \A b \in Registered(basicBlockMap) : blocks'[b] = blocks[b]]_vars

\* find() from n returns, and a second find() on what it returned gives the
\* same node.
FindFixedPoint(n) ==
    LET f == FindSet(nodes, n)
    IN  /\ f.outcome = "ok"
        /\ LET g == FindSet(f.nodes, f.node)
           IN  g.outcome = "ok" /\ g.node = f.node

\* C9 as stated: after any unions and finds, every find() returns and
\* find().find() is find().
C9_FindReturnsFixedPoint ==
    /\ pc # "hung"
    /\ \A n \in DOMAIN nodes : pc = "uf" => FindFixedPoint(n)

\* C9 amended: the same, as long as no union x.union(y) was made with x on
\* the parent chain of another node y.
C9_FindFixedPointWithoutCyclicUnion ==
    ~cyclicUnion =>
        /\ pc # "hung"
        /\ \A n \in DOMAIN nodes : pc = "uf" => FindFixedPoint(n)

C9_Witness ==
    /\ ~cyclicUnion
    /\ pc = "uf"
    /\ ufRet # Undefined
    /\ \E n \in DOMAIN nodes :
          /\ nodes[n].parent # n
          /\ nodes[nodes[n].parent].parent # nodes[n].parent

\* DFS numbers on the path from k to the root of the DFS tree, k included.
RECURSIVE TreePath(_, _)
TreePath(k, fuel) ==
    IF k = Undefined \/ fuel = 0 THEN {}
    ELSE {k} \cup TreePath(dfsParent[k], fuel - 1)

NumberOf(k) == numbers[blocks[nodes[k].bb].name]

\* C10: after the numbering, for visited blocks w and v the ancestor test on
\* their numbers holds iff v is w or a descendant of w in the DFS tree.
C10_AncestorTestIsDescent ==
    pc \in {"stepC", "collapse", "done"} =>
        \A k \in Visited, j \in Visited :
            IsAncestor(NumberOf(k), NumberOf(j), last) <=> (k \in TreePath(j, size))

C10_Witness ==
    /\ pc = "stepC"
    /\ \E k \in Visited, j \in Visited, i \in Visited :
          /\ k # j /\ k \in TreePath(j, size)
          /\ i > j /\ j \notin TreePath(i, size)

\* DFS number of the header block of loop l.
HeaderNumber(l) == numbers[blocks[loopHeap[l].header].name]

\* C11: at every point of a run, the loop at position k of the forest's
\* sequence has serial id k (the root at position 0), and every loop C in the
\* child list of a loop L has a smaller serial id than L, is in the sequence,
\* before L if L is in it, and its header has a larger DFS number than L's.
C11_ChildrenRecordedBeforeParent ==
    /\ loops[1] = root
    /\ \A i \in 1..Len(loops) : loopHeap[loops[i]].counter = i - 1
    /\ \A L \in 1..Len(loopHeap) :
          \A c \in 1..Len(loopHeap[L].children) :
              LET C == loopHeap[L].children[c]
              IN  /\ loopHeap[C].counter < loopHeap[L].counter
                  /\ \E p \in 1..Len(loops) :
                        /\ loops[p] = C
                        /\ \A q \in 1..Len(loops) : loops[q] = L => p < q
                  /\ HeaderNumber(C) > HeaderNumber(L)

\* A child has been attached to a loop that is not yet in the sequence.
C11_Witness ==
    /\ pc = "collapse"
    /\ loop \notin Range(loops)
    /\ Len(loopHeap[loop].children) >= 1
    /\ loopHeap[loopHeap[loop].children[1]].parent = loop

NoDuplicates(s) == \A i \in 1..Len(s), j \in 1..Len(s) : s[i] = s[j] => i = j

\* C12: after findLoops, no block occurs twice among a loop's member blocks
\* and no loop occurs twice among a loop's children.
C12_MembersAndChildrenDuplicateFree ==
    pc = "done" =>
        \A l \in 1..Len(loopHeap) :
            /\ NoDuplicates(loopHeap[l].basicBlocks)
            /\ NoDuplicates(loopHeap[l].children)

====
